---- MODULE Spec2Model ----
(***************************************************************************)
(* Model of smart-leak-analyzer.py: one run of main(), a single blocking   *)
(* process that talks to the IntelX endpoints (search, result listing,     *)
(* file preview, file view) and to a chat-completion endpoint.  Each       *)
(* action runs the program from one blocking network call to the next.     *)
(***************************************************************************)
EXTENDS Integers, Sequences, FiniteSets, TLC

(* ---------------- bounds of the model ---------------- *)
\* longest listing the result endpoint answers with (the code asks for 20)
MaxRecords == 6
\* longest completion text explored in the run of main()
LLMLen == 5
\* longest completion text explored when analyze_dump's extraction is checked alone
MaxLen == 5

(* ---------------- program constants ---------------- *)
\* records[:5]
RecordLimit == 5
\* len(res.text) > 10
PreviewMinLen == 10
\* res.status_code == 200
HTTP_OK == 200

Min(a, b) == IF a < b THEN a ELSE b

\* HTTP statuses an endpoint may answer with
Statuses == {HTTP_OK, 404}
\* body lengths an endpoint may answer with: empty, at and around the threshold
BodyLens == {0, PreviewMinLen, PreviewMinLen + 1}

(* ---------------- values ---------------- *)
\* Python None for a str-or-None value; a text is known by its length
NoneContent == [isNone |-> TRUE, len |-> 0]
Text(n) == [isNone |-> FALSE, len |-> n]
\* line 199 as `if content is None`
FalsyNoneOnly(c) == c.isNone
\* `if not content`: None and "" are falsy
Falsy(c) == c.isNone \/ c.len = 0

(* ---------------- completion texts and their JSON reading ---------------- *)
\* A completion text is a sequence of tokens:
\*   "{" "}"  braces
\*   "x"      a character of prose (not JSON)
\*   "m"      the members of a finding of the expected shape
\*            (risk_level, summary, credentials: a list of objects)
\*   "b"      a member "credentials" whose value is not a list of objects
\*   "k"      a key and colon; the value that follows must be an object
Tok == {"{", "}", "x", "m", "b", "k"}
Texts(n) == UNION {[1..k -> Tok] : k \in 0..n}

Positions(txt, t) == {i \in 1..Len(txt) : txt[i] = t}
SetMin(S) == CHOOSE i \in S : \A j \in S : i <= j
SetMax(S) == CHOOSE i \in S : \A j \in S : i >= j

\* re.search(r'({[\s\S]*})', raw_response): leftmost "{" and, greedily, the last "}" after it
HasMatch(txt) ==
    /\ Positions(txt, "{") # {}
    /\ Positions(txt, "}") # {}
    /\ SetMin(Positions(txt, "{")) < SetMax(Positions(txt, "}"))
\* the pattern made lazy ({[\s\S]*?}): the first "}" after the leftmost "{"
MatchGroupLazy(txt) ==
    SubSeq(txt, SetMin(Positions(txt, "{")),
           SetMin({j \in Positions(txt, "}") : j > SetMin(Positions(txt, "{"))}))
MatchGroup(txt) == SubSeq(txt, SetMin(Positions(txt, "{")), SetMax(Positions(txt, "}")))

\* json.loads accepts s: s is one object, with nothing before or after it
RECURSIVE IsObject(_)
IsObject(s) ==
    /\ Len(s) >= 2
    /\ s[1] = "{"
    /\ s[Len(s)] = "}"
    /\ LET inner == SubSeq(s, 2, Len(s) - 1)
       IN  \/ inner = <<>>
           \/ inner = <<"m">>
           \/ inner = <<"b">>
           \/ /\ Len(inner) >= 3
              /\ inner[1] = "k"
              /\ IsObject(Tail(inner))

\* the value json.loads builds from an accepted s: nesting depth and innermost member
RECURSIVE Loads(_)
Loads(s) ==
    LET inner == SubSeq(s, 2, Len(s) - 1)
    IN  IF inner = <<>> THEN [depth |-> 1, leaf |-> "empty"]
        ELSE IF Len(inner) = 1
             THEN [depth |-> 1, leaf |-> IF inner[1] = "m" THEN "finding" ELSE "badcreds"]
             ELSE [depth |-> Loads(Tail(inner)).depth + 1, leaf |-> Loads(Tail(inner)).leaf]

\* analyze_dump's results
NoAnalysis == [isNone |-> TRUE, depth |-> 0, leaf |-> "none"]
Analysis(v) == [isNone |-> FALSE, depth |-> v.depth, leaf |-> v.leaf]

\* lines 163-170: what analyze_dump returns for the completion text txt
ExtractJson(txt) ==
    IF HasMatch(txt) /\ IsObject(MatchGroup(txt))
    THEN Analysis(Loads(MatchGroup(txt)))
    ELSE NoAnalysis

\* line 209 with the test left out
AnalysisTruthyAlways(a) == TRUE
\* `if analysis`: None and the empty dict are falsy
AnalysisTruthy(a) == ~a.isNone /\ ~(a.depth = 1 /\ a.leaf = "empty")
\* lines 214-218 raise when credentials is not a list of objects
CredsRaise(a) == ~a.isNone /\ a.depth = 1 /\ a.leaf = "badcreds"
\* analysis.get('credentials', []) is non-empty
HasCreds(a) == ~a.isNone /\ a.depth = 1 /\ a.leaf \in {"finding", "badcreds"}


(* ---------------- state ---------------- *)
VARIABLES
    pc,          \* where main() is blocked: "start", "search_wait", "list_wait",
                 \* "preview_wait", "view_wait", "llm_wait", or ended: "done" (main
                 \* returned), "crashed" (uncaught exception), "exit1" (sys.exit(1))
    env,         \* which of INTELX_KEY / OPENAI_API_KEY are set
    aiActive,    \* AIAnalyzer.active
    sid,         \* search()'s result: "None", "" or an identifier
    records,     \* get_results()'s result
    idx,         \* position (1-based) of the record being processed, 0 before the loop
    content,     \* get_preview()'s result for the record being processed
    calls,       \* requests sent so far, per endpoint (and per position in the loop)
    out,         \* lines printed so far for each position of the loop
    logs,        \* lines logged so far by __init__, search() and main() outside the loop
    order,       \* the records whose processing has begun, in the order it began
    lastSearch,  \* how the search request ended
    lastPreview, \* how the latest preview request ended, and for which position
    lastLLM,     \* how the latest completion request ended, and for which position
    raw,         \* analyze_dump's extraction checked alone: the completion text
    result,      \*   what lines 163-170 make of it
    ppc          \*   "idle", "call" or "returned"

vars == <<pc, env, aiActive, sid, records, idx, content, calls, out, logs, order,
          lastSearch, lastPreview, lastLLM, raw, result, ppc>>
mainVars == <<pc, env, aiActive, sid, records, idx, content, calls, out, logs, order,
              lastSearch, lastPreview, lastLLM>>
parseVars == <<raw, result, ppc>>

Pos == 1..RecordLimit
NoCalls == [search |-> 0, list |-> 0,
            preview |-> [k \in Pos |-> 0],
            view |-> [k \in Pos |-> 0],
            llm |-> [k \in Pos |-> 0]]
NoResponse == [pos |-> 0, kind |-> "none", status |-> 0, len |-> 0, body |-> "none"]
NoLLMResponse == [pos |-> 0, kind |-> "none", analysis |-> NoAnalysis]

\* the state at process start, before main() runs, with the environment e
MainInitWith(e) ==
    /\ pc = "start"
    /\ env = e
    /\ aiActive = FALSE
    /\ sid = "None"
    /\ records = <<>>
    /\ idx = 0
    /\ content = NoneContent
    /\ calls = NoCalls
    /\ out = [k \in Pos |-> {}]
    /\ logs = {}
    /\ order = <<>>
    /\ lastSearch = NoResponse
    /\ lastPreview = NoResponse
    /\ lastLLM = NoLLMResponse

Init ==
    /\ \E e \in [intelx : BOOLEAN, openai : BOOLEAN] : MainInitWith(e)
    /\ raw = <<>>
    /\ result = NoAnalysis
    /\ ppc = "idle"

(* ---------------- main(): the pieces between blocking calls ---------------- *)
Shown(o, k, lines) == [o EXCEPT ![k] = @ \cup lines]

\* records[:5]
FirstFive(recs) == SubSeq(recs, 1, Min(Len(recs), RecordLimit))

\* lines 190-198 and 106-110: the loop moves to position k: either the slice is
\* exhausted and main() returns, or the record's header is printed and its
\* preview is requested
BeginRecord(k, recs, o) ==
    IF k > Len(FirstFive(recs))
    THEN /\ pc' = "done"
         /\ out' = o
         /\ content' = NoneContent
         /\ UNCHANGED <<idx, order, calls>>
    ELSE /\ pc' = "preview_wait"
         /\ idx' = k
         /\ order' = Append(order, FirstFive(recs)[k])
         /\ out' = Shown(o, k, {"header"})
         /\ content' = NoneContent
         /\ calls' = [calls EXCEPT !.preview[k] = @ + 1]

\* lines 198-207 and 134-162: get_preview returned c for the current record
GotContent(c) ==
    IF Falsy(c)
    THEN BeginRecord(idx + 1, records, Shown(out, idx, {"warn_nocontent"}))
    ELSE IF ~aiActive
         THEN BeginRecord(idx + 1, records,
                          Shown(out, idx, {"preview", "sending", "warn_noanalysis"}))
         ELSE /\ pc' = "llm_wait"
              /\ content' = c
              /\ out' = Shown(out, idx, {"preview", "sending"})
              /\ calls' = [calls EXCEPT !.llm[idx] = @ + 1]
              /\ UNCHANGED <<idx, order>>

\* lines 209-220: analyze_dump returned a for the current record
GotAnalysis(a) ==
    IF AnalysisTruthy(a)
    THEN IF CredsRaise(a)
         THEN /\ pc' = "crashed"
              /\ out' = Shown(out, idx, {"risk", "summary"})
              /\ UNCHANGED <<idx, order, calls, content>>
         ELSE BeginRecord(idx + 1, records,
                          Shown(out, idx, IF HasCreds(a)
                                          THEN {"risk", "summary", "creds"}
                                          ELSE {"risk", "summary"}))
    ELSE BeginRecord(idx + 1, records, Shown(out, idx, {"warn_noanalysis"}))


(* ---------------- the listing the result endpoint may answer with ---------------- *)
\* records are known by their document id; a listing of n records holds ids 1..n
RecordLists == {[i \in 1..n |-> i] : n \in 0..MaxRecords}

\* search() with the status check of line 86 left out
SearchResultAnyStatus(status, body) ==
    IF body = "id" THEN "abc" ELSE IF body = "emptyid" THEN "" ELSE "None"

\* lines 84-91: what search() returns for a response
SearchResult(status, body) ==
    IF status = HTTP_OK
    THEN IF body = "id" THEN "abc" ELSE IF body = "emptyid" THEN "" ELSE "None"
    ELSE "None"

\* line 182: `if not sid`
NoSid(s) == s \in {"None", ""}

\* lines 97-101: what get_results() returns for a response that carries a list
ListResult(status, body, recs) ==
    IF status = HTTP_OK /\ body = "records" THEN recs ELSE <<>>

\* line 111 with >= in place of >
PreviewAcceptedAtThreshold(status, len) == status = HTTP_OK /\ len >= PreviewMinLen

\* line 111: the preview body is accepted
PreviewAccepted(status, len) == status = HTTP_OK /\ len > PreviewMinLen

\* line 118: the view body is accepted
ViewAccepted(status) == status = HTTP_OK

\* how lines 163-170 see a completion text
Classify(t) ==
    IF ~HasMatch(t) THEN "nomatch"
    ELSE IF ~IsObject(MatchGroup(t)) THEN "badjson" ELSE "json"

\* what analyze_dump makes of the texts the completion endpoint may answer with
LLMOutcomes ==
    {[kind |-> Classify(t), analysis |-> ExtractJson(t)] : t \in Texts(LLMLen)}

\* lines 125-130 with the test of the credential left out
ActiveAlways(e) == TRUE

\* lines 125-130: AIAnalyzer.active
Active(e) == e.openai

(* ---------------- actions ---------------- *)
\* lines 177-181, 66-85, 125-130: the objects are built and the search is requested
Start ==
    /\ pc = "start"
    /\ IF ~env.intelx
       THEN /\ pc' = "exit1"
            /\ logs' = logs \cup {"intelx_key_missing"}
            /\ UNCHANGED <<aiActive, calls>>
       ELSE /\ aiActive' = Active(env)
            /\ logs' = logs \cup (IF Active(env) THEN {} ELSE {"ai_skipped"})
            /\ calls' = [calls EXCEPT !.search = @ + 1]
            /\ pc' = "search_wait"
    /\ UNCHANGED <<env, sid, records, idx, content, out, order,
                   lastSearch, lastPreview, lastLLM, parseVars>>

\* lines 86-91, 181-187, 95-98: search() returns s; main() stops or requests the listing
SearchReturned(s, errs) ==
    /\ sid' = s
    /\ IF NoSid(s)
       THEN /\ pc' = "done"
            /\ logs' = logs \cup errs \cup {"no_result"}
            /\ UNCHANGED calls
       ELSE /\ pc' = "list_wait"
            /\ logs' = logs \cup errs
            /\ calls' = [calls EXCEPT !.list = @ + 1]
    /\ UNCHANGED <<env, aiActive, records, idx, content, out, order,
                   lastPreview, lastLLM, parseVars>>

\* the search endpoint answers
RespondSearch ==
    /\ pc = "search_wait"
    /\ \E status \in Statuses, body \in {"id", "emptyid", "noid", "notjson"} :
          /\ lastSearch' = [NoResponse EXCEPT !.kind = "resp", !.status = status,
                                              !.body = body]
          /\ SearchReturned(SearchResult(status, body),
                            IF status = HTTP_OK /\ body # "notjson"
                            THEN {} ELSE {"search_error"})

\* requests.post raises (connection refused, reset, ...)
RaiseSearch ==
    /\ pc = "search_wait"
    /\ lastSearch' = [NoResponse EXCEPT !.kind = "exc"]
    /\ SearchReturned("None", {"search_error"})

\* line 85 timeout=10: requests.post raises after the timeout
TimeoutSearch ==
    /\ pc = "search_wait"
    /\ lastSearch' = [NoResponse EXCEPT !.kind = "exc"]
    /\ SearchReturned("None", {"search_error"})

\* lines 99, 187-198: get_results() returns recs; the count is logged, the loop starts
ListReturned(recs) ==
    /\ records' = recs
    /\ logs' = logs \cup {"found"}
    /\ BeginRecord(1, recs, out)
    /\ UNCHANGED <<env, aiActive, sid, lastSearch, lastPreview, lastLLM, parseVars>>

\* the listing endpoint answers
RespondList ==
    /\ pc = "list_wait"
    /\ \E status \in Statuses, body \in {"records", "norecords", "notjson"},
          recs \in RecordLists :
          ListReturned(ListResult(status, body, recs))

\* the listing endpoint answers 200 with "records": null: get_results() returns
\* None and len(records) at line 188 raises
RespondListNull ==
    /\ pc = "list_wait"
    /\ pc' = "crashed"
    /\ UNCHANGED <<env, aiActive, sid, records, idx, content, calls, out, logs, order,
                   lastSearch, lastPreview, lastLLM, parseVars>>

\* requests.get raises; line 98 sets no timeout, so nothing else ends the wait
RaiseList ==
    /\ pc = "list_wait"
    /\ ListReturned(<<>>)

\* lines 111-117: the preview endpoint answers; its body is returned, or the view
\* is requested
RespondPreview ==
    /\ pc = "preview_wait"
    /\ \E status \in Statuses, len \in BodyLens :
          /\ lastPreview' = [NoResponse EXCEPT !.pos = idx, !.kind = "resp",
                                               !.status = status, !.len = len]
          /\ IF PreviewAccepted(status, len)
             THEN GotContent(Text(len))
             ELSE /\ pc' = "view_wait"
                  /\ calls' = [calls EXCEPT !.view[idx] = @ + 1]
                  /\ UNCHANGED <<idx, content, out, order>>
    /\ UNCHANGED <<env, aiActive, sid, records, logs, lastSearch, lastLLM, parseVars>>

\* lines 120-122: an exception in get_preview's try block makes it return None
PreviewFailed ==
    /\ lastPreview' = [NoResponse EXCEPT !.pos = idx, !.kind = "exc"]
    /\ GotContent(NoneContent)
    /\ UNCHANGED <<env, aiActive, sid, records, logs, lastSearch, lastLLM, parseVars>>

\* requests.get(url_prev) raises
RaisePreview ==
    /\ pc = "preview_wait"
    /\ PreviewFailed

\* line 110 timeout=10
TimeoutPreview ==
    /\ pc = "preview_wait"
    /\ PreviewFailed

\* lines 118-122: the view endpoint answers
RespondView ==
    /\ pc = "view_wait"
    /\ \E status \in Statuses, len \in BodyLens :
          GotContent(IF ViewAccepted(status) THEN Text(len) ELSE NoneContent)
    /\ UNCHANGED <<env, aiActive, sid, records, logs, lastSearch, lastPreview, lastLLM,
                   parseVars>>

\* requests.get(url_view) raises
RaiseView ==
    /\ pc = "view_wait"
    /\ GotContent(NoneContent)
    /\ UNCHANGED <<env, aiActive, sid, records, logs, lastSearch, lastPreview, lastLLM,
                   parseVars>>

\* line 117 timeout=15
TimeoutView ==
    /\ pc = "view_wait"
    /\ GotContent(NoneContent)
    /\ UNCHANGED <<env, aiActive, sid, records, logs, lastSearch, lastPreview, lastLLM,
                   parseVars>>

\* lines 163-170, 207-220: the completion endpoint answers with text t
RespondCompletion ==
    /\ pc = "llm_wait"
    /\ \E o \in LLMOutcomes :
          /\ lastLLM' = [pos |-> idx, kind |-> o.kind, analysis |-> o.analysis]
          /\ GotAnalysis(o.analysis)
    /\ UNCHANGED <<env, aiActive, sid, records, logs, lastSearch, lastPreview, parseVars>>

\* lines 168-170: an exception in analyze_dump's try block makes it return None
CompletionFailed ==
    /\ lastLLM' = [pos |-> idx, kind |-> "exc", analysis |-> NoAnalysis]
    /\ GotAnalysis(NoAnalysis)
    /\ UNCHANGED <<env, aiActive, sid, records, logs, lastSearch, lastPreview, parseVars>>

\* the completion carries no text (message.content is None): re.search raises
RespondCompletionNull ==
    /\ pc = "llm_wait"
    /\ CompletionFailed

\* LLM_CLIENT.chat.completions.create raises
RaiseCompletion ==
    /\ pc = "llm_wait"
    /\ CompletionFailed

\* lines 56-59 and 155-162 pass no timeout; the client built at line 56 applies
\* its own default one
TimeoutCompletion ==
    /\ pc = "llm_wait"
    /\ CompletionFailed

Next ==
    \/ Start
    \/ RespondSearch \/ RaiseSearch \/ TimeoutSearch
    \/ RespondList \/ RespondListNull \/ RaiseList
    \/ RespondPreview \/ RaisePreview \/ TimeoutPreview
    \/ RespondView \/ RaiseView \/ TimeoutView
    \/ RespondCompletion \/ RespondCompletionNull \/ RaiseCompletion \/ TimeoutCompletion

Spec == Init /\ [][Next]_vars


\* The timeouts the code sets (lines 85, 110, 117) and the completion client's
\* own one end a wait; the program's own steps are taken.  Nothing obliges an
\* endpoint to answer.
FairSpec ==
    /\ Spec
    /\ WF_vars(Start)
    /\ WF_vars(TimeoutSearch)
    /\ WF_vars(TimeoutPreview)
    /\ WF_vars(TimeoutView)
    /\ WF_vars(TimeoutCompletion)

(* ---------------- analyze_dump's extraction, alone ---------------- *)
\* analyze_dump is active and has received the completion text raw
ParseInit ==
    /\ MainInitWith([intelx |-> TRUE, openai |-> TRUE])
    /\ raw \in Texts(MaxLen)
    /\ result = NoAnalysis
    /\ ppc = "call"

\* lines 163-170
AnalyzeDumpReturns ==
    /\ ppc = "call"
    /\ result' = ExtractJson(raw)
    /\ ppc' = "returned"
    /\ UNCHANGED <<raw, mainVars>>

ParseNext == AnalyzeDumpReturns

ParseSpec == ParseInit /\ [][ParseNext]_vars


(* ======================= the claims ======================= *)
Ended == pc \in {"done", "crashed", "exit1"}
\* the loop has finished with position k
Finished(k) == k < idx \/ (k = idx /\ pc \in {"done", "crashed"})
SearchGaveId ==
    lastSearch.kind = "resp" /\ lastSearch.status = HTTP_OK /\ lastSearch.body = "id"
SearchGaveNothing ==
    \/ lastSearch.kind = "exc"
    \/ lastSearch.kind = "resp" /\ lastSearch.status # HTTP_OK
    \/ lastSearch.kind = "resp" /\ lastSearch.status = HTTP_OK
                                /\ lastSearch.body \in {"noid", "notjson"}

\* C1: when the search yields no session identifier (non-200, exception, or a 200
\* answer without an id), search() returns None and main() has returned after
\* logging the error: the listing, preview, view and completion endpoints were
\* never requested and nothing was printed for any record.
C1_FailedSearchStopsRun ==
    SearchGaveNothing =>
        /\ sid = "None"
        /\ pc = "done"
        /\ "no_result" \in logs
        /\ "found" \notin logs
        /\ calls.list = 0
        /\ \A k \in Pos : calls.preview[k] = 0 /\ calls.view[k] = 0 /\ calls.llm[k] = 0
        /\ \A k \in Pos : out[k] = {}
        /\ order = <<>>

\* C1 witness: a 200 answer without an id ended the run
C1_Witness ==
    /\ lastSearch.kind = "resp" /\ lastSearch.status = HTTP_OK /\ lastSearch.body = "noid"
    /\ pc = "done"
    /\ "no_result" \in logs

\* C2 (as claimed): once the listing gave N records and the run has ended, exactly
\* the first min(N, 5) records were processed, in their order, each once.
C2_ProcessesFirstFive ==
    (pc \in {"done", "crashed"} /\ "found" \in logs) =>
        /\ order = SubSeq(records, 1, Min(Len(records), RecordLimit))
        /\ \A k \in Pos : (k <= Min(Len(records), RecordLimit)) <=> ("header" \in out[k])

\* C3 (as claimed): for every preview response, of any status, the view endpoint
\* is requested if the body has length <= 10 and is not requested if it has
\* length > 10.
C3_FallbackByLengthAlone ==
    lastPreview.kind = "resp" =>
        /\ lastPreview.len <= PreviewMinLen => calls.view[lastPreview.pos] = 1
        /\ lastPreview.len > PreviewMinLen => calls.view[lastPreview.pos] = 0

\* C3 (amended): for every preview response, the view endpoint is requested if the
\* body has length <= 10 (any status) or the status is not 200 (any length), and is
\* not requested if the status is 200 and the body has length > 10.
C3_FallbackUnlessAccepted ==
    lastPreview.kind = "resp" =>
        /\ lastPreview.len <= PreviewMinLen => calls.view[lastPreview.pos] = 1
        /\ lastPreview.status # HTTP_OK => calls.view[lastPreview.pos] = 1
        /\ (lastPreview.status = HTTP_OK /\ lastPreview.len > PreviewMinLen)
               => calls.view[lastPreview.pos] = 0

\* C3 witness: a 200 preview of exactly 10 characters made the view be requested
C3_Witness ==
    /\ lastPreview.kind = "resp"
    /\ lastPreview.status = HTTP_OK
    /\ lastPreview.len = PreviewMinLen
    /\ pc = "view_wait"
    /\ calls.view[lastPreview.pos] = 1

\* the well-formed objects that occur in raw, as (first, last) positions
ObjectsIn(t) ==
    {ij \in (1..Len(t)) \X (1..Len(t)) : ij[1] < ij[2] /\ IsObject(SubSeq(t, ij[1], ij[2]))}
\* the prose around an occurrence holds no "{" before it and no "}" after it
CleanAround(t, ij) ==
    /\ \A p \in 1..(ij[1] - 1) : t[p] # "{"
    /\ \A p \in (ij[2] + 1)..Len(t) : t[p] # "}"

\* C4 (as claimed): when the completion text holds a well-formed JSON object
\* somewhere, whatever surrounds it, analyze_dump returns a well-formed object of
\* the text.
C4_AnyObjectExtracted ==
    (ppc = "returned" /\ ObjectsIn(raw) # {}) =>
        \E ij \in ObjectsIn(raw) : result = Analysis(Loads(SubSeq(raw, ij[1], ij[2])))

\* C4 (amended): when the completion text holds a well-formed JSON object and the
\* prose around it has no "{" before the object and no "}" after it,
\* analyze_dump returns exactly that object.
C4_ObjectExtractedFromBraceFreeProse ==
    ppc = "returned" =>
        \A ij \in ObjectsIn(raw) :
            CleanAround(raw, ij) => result = Analysis(Loads(SubSeq(raw, ij[1], ij[2])))

\* C4 witness: an object with prose on both sides was returned
C4_Witness ==
    /\ ppc = "returned"
    /\ \E ij \in ObjectsIn(raw) :
          /\ ij[1] > 1 /\ ij[2] < Len(raw)
          /\ CleanAround(raw, ij)
          /\ result = Analysis(Loads(SubSeq(raw, ij[1], ij[2])))

\* C5: when the completion call raised, or its text has no {...} substring, or the
\* text from the first { to the last } is not valid JSON, analyze_dump returned
\* None without raising, and the record shows its preview and the warning and no
\* risk, summary or credential line.
C5_FailedAnalysisShowsPreviewOnly ==
    lastLLM.kind \in {"exc", "nomatch", "badjson"} =>
        /\ lastLLM.analysis = NoAnalysis
        /\ pc # "crashed"
        /\ {"preview", "warn_noanalysis"} \subseteq out[lastLLM.pos]
        /\ out[lastLLM.pos] \cap {"risk", "summary", "creds"} = {}

\* C5 witness: a completion whose braces hold no valid JSON was handled
C5_Witness ==
    /\ lastLLM.kind = "badjson"
    /\ "warn_noanalysis" \in out[lastLLM.pos]
    /\ Finished(lastLLM.pos)

Warnings == {"warn_nocontent", "warn_noanalysis"}

\* C6 (as claimed): with no language-model credential, no completion call is made
\* and every record the loop has finished with shows preview text and a warning
\* and no risk or summary line.
C6_DisabledAlwaysShowsPreview ==
    ~env.openai =>
        /\ \A k \in Pos : calls.llm[k] = 0
        /\ \A k \in Pos : Finished(k) =>
              /\ "preview" \in out[k]
              /\ out[k] \cap Warnings # {}
              /\ out[k] \cap {"risk", "summary", "creds"} = {}

\* C6 (amended): with no language-model credential, no completion call is made
\* and every record the loop has finished with shows a warning and no risk or
\* summary line; it shows its preview text and the no-analysis warning, unless
\* get_preview gave no content, and then it shows the no-content warning alone.
C6_DisabledShowsWarningOnly ==
    ~env.openai =>
        /\ \A k \in Pos : calls.llm[k] = 0
        /\ pc # "llm_wait"
        /\ \A k \in Pos : Finished(k) =>
              /\ out[k] \cap {"risk", "summary", "creds"} = {}
              /\ \/ out[k] = {"header", "preview", "sending", "warn_noanalysis"}
                 \/ out[k] = {"header", "warn_nocontent"}

\* C6 witness: a disabled run finished a record with preview text and one without
C6_Witness ==
    /\ ~env.openai
    /\ pc = "done"
    /\ idx >= 2
    /\ "preview" \in out[1] /\ "warn_noanalysis" \in out[1]
    /\ out[2] = {"header", "warn_nocontent"}

\* C7 (as claimed): whatever happens to a record in the loop, the run does not
\* abort.
C7_LoopNeverAborts ==
    idx >= 1 => pc # "crashed"

\* C8 (as claimed): when the preview request raises, the view endpoint is
\* requested for that record.
C8_ViewTriedAfterPreviewException ==
    lastPreview.kind = "exc" => calls.view[lastPreview.pos] = 1

\* C9 (as claimed): every run reaches its end.
C9_RunTerminates == <>Ended

\* C10: the search and the listing are requested at most once, the listing only
\* after a search that gave an identifier; for each position the loop has reached
\* the preview is requested exactly once, the view at most once and only after the
\* preview, the completion at most once and only with non-empty content obtained;
\* positions the loop has not reached have no request.
C10_NoRetryFixedOrder ==
    /\ calls.search <= 1
    /\ calls.list <= 1
    /\ calls.list = 1 => (calls.search = 1 /\ SearchGaveId)
    /\ idx >= 1 => calls.list = 1
    /\ idx <= RecordLimit
    /\ \A k \in Pos :
          /\ calls.preview[k] = (IF k <= idx THEN 1 ELSE 0)
          /\ calls.view[k] <= 1
          /\ calls.llm[k] <= 1
          /\ calls.view[k] = 1 => (calls.preview[k] = 1 /\ "header" \in out[k])
          /\ calls.llm[k] = 1 => (calls.preview[k] = 1 /\ "preview" \in out[k])
          /\ (calls.view[k] = 1 /\ lastPreview.pos = k) => lastPreview.kind = "resp"
    /\ pc = "llm_wait" => (~content.isNone /\ content.len > 0 /\ calls.llm[idx] = 1)
    /\ pc = "view_wait" => (calls.view[idx] = 1 /\ calls.llm[idx] = 0)
    /\ pc = "preview_wait" => (calls.view[idx] = 0 /\ calls.llm[idx] = 0)

\* C10 witness: a run that requested preview, view and completion for five records
C10_Witness ==
    /\ pc = "done"
    /\ idx = RecordLimit
    /\ \A k \in Pos : calls.preview[k] = 1 /\ calls.view[k] = 1 /\ calls.llm[k] = 1

====
